---- MODULE Spec2Model ----
(***************************************************************************)
(* Vacation-rental listing site: the persisted store (Location, Property,  *)
(* PropertyImage), the CSV bulk importer, PropertyImage.save(), the        *)
(* cascade / set-null deletions and the location autocomplete endpoint.    *)
(*                                                                         *)
(* Text values are sequences of ASCII codes, so that strip(), lower() and  *)
(* icontains are computed and not assumed: <<32, 65>> is " A".             *)
(***************************************************************************)
EXTENDS Integers, Sequences, FiniteSets, TLC

VARIABLES
    locations,      \* rows of table locations_location
    properties,     \* rows of table properties_property
    images,         \* rows of table images_propertyimage
    nextLocationId, \* auto-increment counters of the three tables
    nextPropertyId,
    nextImageId,
    pc,             \* position of the import command: idle / rows / done / fatal
    skip_location,  \* options['skip_location'] of the running command
    csv_file,       \* the input of the running command
    row_num,        \* loop variable of handle(): number of the last row read
    row,            \* loop variable of handle(): the last row read
    created_count,
    updated_count,
    error_count,
    stdout,         \* what the command has written (one entry per message)
    savers,         \* in-flight PropertyImage.save() calls, per caller
    response,       \* the last response of the autocomplete endpoint
    runs            \* the row in hand of each of two concurrent import runs

vars == <<locations, properties, images, nextLocationId, nextPropertyId,
          nextImageId, pc, skip_location, csv_file, row_num, row,
          created_count, updated_count, error_count, stdout, savers, response, runs>>

storeVars == <<locations, properties, images, nextLocationId, nextPropertyId, nextImageId>>
importVars == <<pc, skip_location, csv_file, row_num, row, created_count,
                updated_count, error_count, stdout>>

(***************************************************************************)
(* Bounds of the model.                                                    *)
(***************************************************************************)
MaxRows == 2        \* data rows per input file
MaxLocations == 2   \* Location identifiers ever handed out
MaxProperties == 2  \* Property identifiers ever handed out
MaxImages == 2      \* PropertyImage identifiers ever handed out

NULL == 0           \* the SQL NULL of a foreign key; identifiers start at 1

(***************************************************************************)
(* Text.                                                                   *)
(***************************************************************************)
\* str.isspace() on ASCII
IsSpace(c) == c \in {9, 10, 11, 12, 13, 28, 29, 30, 31, 32}

RECURSIVE LStrip(_)
LStrip(s) == IF s # <<>> /\ IsSpace(Head(s)) THEN LStrip(Tail(s)) ELSE s

RECURSIVE RStrip(_)
RStrip(s) == IF s # <<>> /\ IsSpace(s[Len(s)]) THEN RStrip(SubSeq(s, 1, Len(s) - 1)) ELSE s

\* str.strip()
Strip(s) == RStrip(LStrip(s))

\* str.lower() on ASCII: 'A'..'Z' -> 'a'..'z'
LowerChar(c) == IF c >= 65 /\ c <= 90 THEN c + 32 ELSE c
Lower(s) == [i \in 1..Len(s) |-> LowerChar(s[i])]

\* SQLite  x LIKE '%q%'  (ASCII case-insensitive substring), the icontains lookup
IContains(s, q) ==
    \E i \in 1..(Len(s) - Len(q) + 1) : Lower(SubSeq(s, i, i + Len(q) - 1)) = Lower(q)

\* SQLite BINARY collation: s sorts strictly before t
RECURSIVE StrLess(_, _)
StrLess(s, t) ==
    IF t = <<>> THEN FALSE
    ELSE IF s = <<>> THEN TRUE
    ELSE IF Head(s) # Head(t) THEN Head(s) < Head(t)
    ELSE StrLess(Tail(s), Tail(t))

StrLeq(s, t) == s = t \/ StrLess(s, t)

(***************************************************************************)
(* A CSV cell as csv.DictReader hands it over: a string, absent (the       *)
(* header has no such column) or None (the row is shorter than the header).*)
(***************************************************************************)
F(s) == [kind |-> "str", s |-> s]
Absent == [kind |-> "absent", s |-> <<>>]
NoneCell == [kind |-> "none", s |-> <<>>]

\* row.get(key, default) for a string default
Get(cell, default) == IF cell.kind = "absent" THEN F(default) ELSE cell

\* row.get(key, default).strip() raises AttributeError on None
StripRaises(cell) == cell.kind = "none"
Stripped(cell, default) == Strip(Get(cell, default).s)

IsDigit(c) == c >= 48 /\ c <= 57
AllDigits(s) == s # <<>> /\ \A i \in 1..Len(s) : IsDigit(s[i])

RECURSIVE DigitsValue(_)
DigitsValue(s) == IF s = <<>> THEN 0 ELSE 10 * DigitsValue(SubSeq(s, 1, Len(s) - 1)) + (s[Len(s)] - 48)

Unsigned(s) == IF s # <<>> /\ Head(s) \in {43, 45} THEN Tail(s) ELSE s
Sign(s) == IF s # <<>> /\ Head(s) = 45 THEN -1 ELSE 1

\* int(text): surrounding whitespace and a sign are accepted, ValueError otherwise
IntParses(s) == AllDigits(Unsigned(Strip(s)))
IntValue(s) == Sign(Strip(s)) * DigitsValue(Unsigned(Strip(s)))

\* int() whose failure leaves 0 and not the default
ParseIntZero(cell, default) ==
    IF cell.kind = "absent" THEN default
    ELSE IF cell.kind = "none" THEN 0
    ELSE IF IntParses(cell.s) THEN IntValue(cell.s)
    ELSE 0

\* try: int(row.get(key, default)) except (ValueError, TypeError): default
ParseInt(cell, default) ==
    IF cell.kind = "absent" THEN default
    ELSE IF cell.kind = "none" THEN default
    ELSE IF IntParses(cell.s) THEN IntValue(cell.s)
    ELSE default

\* position of the decimal point in s, 0 when there is none
PointAt(s) == IF \E i \in 1..Len(s) : s[i] = 46
              THEN CHOOSE i \in 1..Len(s) : s[i] = 46 /\ \A j \in 1..(i - 1) : s[j] # 46
              ELSE 0

\* Decimal(text) accepts [sign] digits [. digits] (at least one digit) around
\* whitespace; any other text over digits, letters, sign and point that the
\* rows of this model use raises decimal.InvalidOperation (the exponent, NaN
\* and Infinity notations are not among them).
DecimalParses(s) ==
    LET u == Unsigned(Strip(s))
        p == PointAt(u)
        ip == IF p = 0 THEN u ELSE SubSeq(u, 1, p - 1)
        fp == IF p = 0 THEN <<>> ELSE SubSeq(u, p + 1, Len(u))
    IN /\ ip \o fp # <<>>
       /\ \A i \in 1..Len(ip) : IsDigit(ip[i])
       /\ \A i \in 1..Len(fp) : IsDigit(fp[i])

RECURSIVE Pow10(_)
Pow10(n) == IF n = 0 THEN 1 ELSE 10 * Pow10(n - 1)

\* The value a DecimalField with `places` decimal places stores for the text,
\* as an integer count of 10^-places (round-half-even on excess digits).
DecimalValue(s, places) ==
    LET u == Unsigned(Strip(s))
        p == PointAt(u)
        ip == IF p = 0 THEN u ELSE SubSeq(u, 1, p - 1)
        fp == IF p = 0 THEN <<>> ELSE SubSeq(u, p + 1, Len(u))
        coef == DigitsValue(ip \o fp)
        k == Len(fp)
        q == coef \div Pow10(k - places)
        r == coef % Pow10(k - places)
        half == Pow10(k - places) \div 2
        rounded == IF r > half \/ (r = half /\ q % 2 = 1) THEN q + 1 ELSE q
    IN Sign(Strip(s)) * (IF k <= places THEN coef * Pow10(places - k) ELSE rounded)


(***************************************************************************)
(* The store.                                                              *)
(*   Location      [id, name, city, state, country, description]           *)
(*   Property      [id, title, location, description, property_type,       *)
(*                  bedrooms, bathrooms, max_guests, price_per_night,      *)
(*                  address, amenities, is_available]                      *)
(*   PropertyImage [id, property, is_primary]                              *)
(* bathrooms is stored in tenths and price_per_night in hundredths.        *)
(***************************************************************************)
Ids(set) == {x.id : x \in set}

Store(ls, ps, nl, np) ==
    [locations |-> ls, properties |-> ps, nextLocationId |-> nl, nextPropertyId |-> np]

\* UniqueConstraint(fields=["name", "city", "country"], name="unique_location")
UniqueLocation(ls) ==
    \A a, b \in ls :
        (a.name = b.name /\ a.city = b.city /\ a.country = b.country) => a.id = b.id

\* Would inserting (name, city, country) violate unique_location?
ViolatesUniqueLocation(ls, name, city, country) ==
    \E l \in ls : l.name = name /\ l.city = city /\ l.country = country

\* DecimalField(max_digits, decimal_places): a value with more than max_digits
\* digits cannot be written; v is the value in units of 10^-decimal_places.
RECURSIVE NumDigits(_)
NumDigits(v) == IF v < 0 THEN NumDigits(-v) ELSE IF v < 10 THEN 1 ELSE 1 + NumDigits(v \div 10)

DecimalFits(v, max_digits) == NumDigits(v) <= max_digits

\* Location.objects.create(...) where the code has get_or_create
AlwaysCreateLocation(S, name, city, state, country) ==
    [raised |-> FALSE, location |-> S.nextLocationId, created |-> TRUE,
     store |-> [S EXCEPT
         !.locations = @ \cup {[id |-> S.nextLocationId, name |-> name,
                                city |-> city, state |-> state,
                                country |-> country, description |-> NoneCell]},
         !.nextLocationId = @ + 1]]

\* Location.objects.update_or_create(name=name, defaults={city, state, country})
UpdateOrCreateLocation(S, name, city, state, country) ==
    LET found == {l \in S.locations : l.name = name}
        one == CHOOSE l \in found : TRUE
    IN IF Cardinality(found) > 1
       THEN [raised |-> TRUE, location |-> NULL, created |-> FALSE, store |-> S]
       ELSE IF Cardinality(found) = 1
       THEN [raised |-> FALSE, location |-> one.id, created |-> FALSE,
             store |-> [S EXCEPT !.locations = (@ \ {one}) \cup
                 {[one EXCEPT !.city = city, !.state = state, !.country = country]}]]
       ELSE [raised |-> FALSE, location |-> S.nextLocationId, created |-> TRUE,
             store |-> [S EXCEPT
                 !.locations = @ \cup {[id |-> S.nextLocationId, name |-> name,
                                        city |-> city, state |-> state,
                                        country |-> country, description |-> NoneCell]},
                 !.nextLocationId = @ + 1]]

\* Location.objects.get_or_create(name=name, defaults={city, state, country})
GetOrCreateLocation(S, name, city, state, country) ==
    LET found == {l \in S.locations : l.name = name}
    IN IF Cardinality(found) > 1
       THEN [raised |-> TRUE, location |-> NULL, created |-> FALSE, store |-> S]
       ELSE IF Cardinality(found) = 1
       THEN [raised |-> FALSE, location |-> (CHOOSE l \in found : TRUE).id,
             created |-> FALSE, store |-> S]
       ELSE [raised |-> FALSE, location |-> S.nextLocationId, created |-> TRUE,
             store |-> [S EXCEPT
                 !.locations = @ \cup {[id |-> S.nextLocationId, name |-> name,
                                        city |-> city, state |-> state,
                                        country |-> country, description |-> NoneCell]},
                 !.nextLocationId = @ + 1]]

\* Property.objects.create(title=title, **property_data)
CreateProperty(S, title, location, data) ==
    [S EXCEPT
        !.properties = @ \cup {[id |-> S.nextPropertyId, title |-> title,
            location |-> location, description |-> data.description,
            property_type |-> data.property_type, bedrooms |-> data.bedrooms,
            bathrooms |-> data.bathrooms, max_guests |-> data.max_guests,
            price_per_night |-> data.price_per_night, address |-> data.address,
            amenities |-> data.amenities, is_available |-> data.is_available]},
        !.nextPropertyId = @ + 1]

\* an update whose defaults leave out price_per_night
UpdatePropertyKeepsPrice(S, p, location, data) ==
    [S EXCEPT
        !.properties = (@ \ {p}) \cup {[p EXCEPT
            !.location = location, !.description = data.description,
            !.property_type = data.property_type, !.bedrooms = data.bedrooms,
            !.bathrooms = data.bathrooms, !.max_guests = data.max_guests,
            !.address = data.address,
            !.amenities = data.amenities, !.is_available = data.is_available]}]

\* The branch of update_or_create that found exactly one object p
UpdateProperty(S, p, location, data) ==
    [S EXCEPT
        !.properties = (@ \ {p}) \cup {[p EXCEPT
            !.location = location, !.description = data.description,
            !.property_type = data.property_type, !.bedrooms = data.bedrooms,
            !.bathrooms = data.bathrooms, !.max_guests = data.max_guests,
            !.price_per_night = data.price_per_night, !.address = data.address,
            !.amenities = data.amenities, !.is_available = data.is_available]}]

\* update_or_create that looks the Property up by title alone
UpdateOrCreateByTitle(S, title, location, data) ==
    LET found == {p \in S.properties : p.title = title}
    IN IF Cardinality(found) > 1
       THEN [raised |-> TRUE, created |-> FALSE, store |-> S]
       ELSE IF Cardinality(found) = 1
       THEN [raised |-> FALSE, created |-> FALSE,
             store |-> UpdateProperty(S, CHOOSE p \in found : TRUE, location, data)]
       ELSE [raised |-> FALSE, created |-> TRUE,
             store |-> CreateProperty(S, title, location, data)]

\* a plain create where the code has update_or_create
AlwaysCreateProperty(S, title, location, data) ==
    [raised |-> FALSE, created |-> TRUE, store |-> CreateProperty(S, title, location, data)]

\* Property.objects.update_or_create(title=title, location=location, defaults=data)
UpdateOrCreateProperty(S, title, location, data) ==
    LET found == {p \in S.properties : p.title = title /\ p.location = location}
    IN IF Cardinality(found) > 1
       THEN [raised |-> TRUE, created |-> FALSE, store |-> S]
       ELSE IF Cardinality(found) = 1
       THEN [raised |-> FALSE, created |-> FALSE,
             store |-> UpdateProperty(S, CHOOSE p \in found : TRUE, location, data)]
       ELSE [raised |-> FALSE, created |-> TRUE,
             store |-> CreateProperty(S, title, location, data)]

(***************************************************************************)
(* One iteration of the row loop of Command.handle.                        *)
(***************************************************************************)
Outcome(msg, S) == [msg |-> msg, store |-> S]

\* the test of line 108 on the location name alone
HandleLocationNameOnly(r, skip, S) ==
    IF skip
    THEN [msg |-> "ok", location |-> NULL, store |-> S]
    ELSE IF \/ StripRaises(Get(r.location, <<>>)) \/ StripRaises(Get(r.city, <<>>))
            \/ StripRaises(Get(r.state, <<>>)) \/ StripRaises(Get(r.country, <<85, 83, 65>>))
    THEN [msg |-> "exception", location |-> NULL, store |-> S]
    ELSE LET location_name == Stripped(r.location, <<>>)
             city == Stripped(r.city, <<>>)
             state == Stripped(r.state, <<>>)
             country == Stripped(r.country, <<85, 83, 65>>)
             got == GetOrCreateLocation(S, location_name, city, state, country)
         IN IF location_name = <<>>
            THEN [msg |-> "missing_location", location |-> NULL, store |-> S]
            ELSE IF got.raised
            THEN [msg |-> "exception", location |-> NULL, store |-> S]
            ELSE [msg |-> "ok", location |-> got.location, store |-> got.store]

\* lines 100-129: the Location of the row
HandleLocation(r, skip, S) ==
    IF skip
    THEN [msg |-> "ok", location |-> NULL, store |-> S]
    ELSE IF \/ StripRaises(Get(r.location, <<>>)) \/ StripRaises(Get(r.city, <<>>))
            \/ StripRaises(Get(r.state, <<>>)) \/ StripRaises(Get(r.country, <<85, 83, 65>>))
    THEN [msg |-> "exception", location |-> NULL, store |-> S]
    ELSE LET location_name == Stripped(r.location, <<>>)
             city == Stripped(r.city, <<>>)
             state == Stripped(r.state, <<>>)
             country == Stripped(r.country, <<85, 83, 65>>)
             got == GetOrCreateLocation(S, location_name, city, state, country)
         IN IF location_name = <<>> \/ city = <<>> \/ state = <<>>
            THEN [msg |-> "missing_location", location |-> NULL, store |-> S]
            ELSE IF got.raised
            THEN [msg |-> "exception", location |-> NULL, store |-> S]
            ELSE [msg |-> "ok", location |-> got.location, store |-> got.store]

\* lines 147-165: do the two Decimal(...) conversions raise past their handlers?
\* (ValueError, TypeError) does not cover decimal.InvalidOperation.
DecimalRaises(cell) == cell.kind = "str" /\ ~DecimalParses(cell.s)

ParseDecimal(cell, default, places) ==
    IF cell.kind = "str" THEN DecimalValue(cell.s, places) ELSE default

\* lines 169-179: property_data
PropertyDataRaises(r) ==
    \/ StripRaises(Get(r.description, <<>>)) \/ StripRaises(Get(r.property_type, <<>>))
    \/ StripRaises(Get(r.address, <<>>)) \/ StripRaises(Get(r.amenities, <<>>))
    \/ StripRaises(Get(r.is_available, <<116, 114, 117, 101>>))

PropertyData(r) ==
    [description |-> Stripped(r.description, <<>>),
     property_type |-> Stripped(r.property_type, <<>>),
     bedrooms |-> ParseInt(r.bedrooms, 1),
     bathrooms |-> ParseDecimal(r.bathrooms, 10, 1),
     max_guests |-> ParseInt(r.max_guests, 2),
     price_per_night |-> ParseDecimal(r.price_per_night, 10000, 2),
     address |-> Stripped(r.address, <<>>),
     amenities |-> Stripped(r.amenities, <<>>),
     is_available |-> Lower(Get(r.is_available, <<116, 114, 117, 101>>).s) = <<116, 114, 117, 101>>]

\* the writes of lines 189 and 201 raise when a decimal does not fit its column
SaveRaises(data) == ~DecimalFits(data.bathrooms, 3) \/ ~DecimalFits(data.price_per_night, 10)

\* the importer without the branch of line 187: update_or_create in every mode
CreateOrUpdateAlwaysMatches(skip, S, title, location, data) ==
    LET uoc == UpdateOrCreateProperty(S, title, location, data)
    IN IF uoc.raised THEN Outcome("exception", S)
       ELSE IF uoc.created THEN Outcome("created", uoc.store)
       ELSE Outcome("updated", uoc.store)

\* lines 187-212: create, or update-or-create
CreateOrUpdate(skip, S, title, location, data) ==
    IF skip \/ location = NULL
    THEN Outcome("created", CreateProperty(S, title, location, data))
    ELSE LET uoc == UpdateOrCreateProperty(S, title, location, data)
         IN IF uoc.raised THEN Outcome("exception", S)
            ELSE IF uoc.created THEN Outcome("created", uoc.store)
            ELSE Outcome("updated", uoc.store)

\* the loop body without the test of line 134: a blank title is imported
ProcessRowBlankTitleKept(r, skip, S) ==
    LET loc == HandleLocation(r, skip, S)
        S1 == loc.store
    IN IF loc.msg # "ok" THEN Outcome(loc.msg, S1)
       ELSE IF StripRaises(Get(r.title, <<>>)) THEN Outcome("exception", S1)
       ELSE IF DecimalRaises(r.bathrooms) \/ DecimalRaises(r.price_per_night)
       THEN Outcome("exception", S1)
       ELSE IF PropertyDataRaises(r) THEN Outcome("exception", S1)
       ELSE IF SaveRaises(PropertyData(r)) THEN Outcome("exception", S1)
       ELSE CreateOrUpdate(skip, S1, Stripped(r.title, <<>>), loc.location, PropertyData(r))

\* lines 96-221
ProcessRow(r, skip, S) ==
    LET loc == HandleLocation(r, skip, S)
        S1 == loc.store
    IN IF loc.msg # "ok" THEN Outcome(loc.msg, S1)
       ELSE IF StripRaises(Get(r.title, <<>>)) THEN Outcome("exception", S1)
       ELSE IF Stripped(r.title, <<>>) = <<>> THEN Outcome("missing_title", S1)
       ELSE IF DecimalRaises(r.bathrooms) \/ DecimalRaises(r.price_per_night)
       THEN Outcome("exception", S1)
       ELSE IF PropertyDataRaises(r) THEN Outcome("exception", S1)
       ELSE IF SaveRaises(PropertyData(r)) THEN Outcome("exception", S1)
       ELSE CreateOrUpdate(skip, S1, Stripped(r.title, <<>>), loc.location, PropertyData(r))

\* the handler of line 214 forgets its  error_count += 1
IsErrorUncounted(msg) == msg \in {"missing_location", "missing_title"}
\* a created row that is counted as an error as well
IsErrorOrCreated(msg) == msg \in {"missing_location", "missing_title", "exception", "created"}
IsError(msg) == msg \in {"missing_location", "missing_title", "exception"}


(***************************************************************************)
(* Inputs of the model: the CSV rows the reader can yield.  A row is the   *)
(* dict of one csv.DictReader record.                                      *)
(***************************************************************************)
RowOf(l, t, d) ==
    [location |-> l.location, city |-> l.city, state |-> l.state, country |-> l.country,
     title |-> t, description |-> d.description, property_type |-> d.property_type,
     bedrooms |-> d.bedrooms, bathrooms |-> d.bathrooms, max_guests |-> d.max_guests,
     price_per_night |-> d.price_per_night, address |-> d.address,
     amenities |-> d.amenities, is_available |-> d.is_available]

LocCells(n, c, s, k) == [location |-> n, city |-> c, state |-> s, country |-> k]

\* " A ",X,S   A,Y,S,UK   B,X,S
GoodLocCells ==
    {LocCells(F(<<32, 65, 32>>), F(<<88>>), F(<<83>>), Absent),
     LocCells(F(<<65>>), F(<<89>>), F(<<83>>), F(<<85, 75>>)),
     LocCells(F(<<66>>), F(<<88>>), F(<<83>>), Absent)}

FirstLocCells == LocCells(F(<<32, 65, 32>>), F(<<88>>), F(<<83>>), Absent)

\* blank city, blank name, blank state, a row cut short before its city
BlankCityCells == LocCells(F(<<65>>), F(<<32>>), F(<<83>>), Absent)
BadLocCells ==
    {BlankCityCells,
     LocCells(F(<<>>), F(<<88>>), F(<<83>>), Absent),
     LocCells(F(<<65>>), F(<<88>>), F(<<>>), Absent),
     LocCells(F(<<65>>), NoneCell, NoneCell, Absent)}

\* "T", " U"
GoodTitles == {F(<<84>>), F(<<32, 85>>)}
\* " ", None
BadTitles == {F(<<32>>), NoneCell}

\* description d, type v, 3 bedrooms, 2.5 bathrooms, 4 guests, 250 a night, "TRUE"
FullCells ==
    [description |-> F(<<100>>), property_type |-> F(<<118>>), bedrooms |-> F(<<51>>),
     bathrooms |-> F(<<50, 46, 53>>), max_guests |-> F(<<52>>),
     price_per_night |-> F(<<50, 53, 48>>), address |-> Absent, amenities |-> Absent,
     is_available |-> F(<<84, 82, 85, 69>>)]

\* only the title column and the location columns are in the file
DefaultCells ==
    [description |-> Absent, property_type |-> Absent, bedrooms |-> Absent,
     bathrooms |-> Absent, max_guests |-> Absent, price_per_night |-> Absent,
     address |-> Absent, amenities |-> Absent, is_available |-> Absent]

\* bathrooms "a"
BadDataCells == {[FullCells EXCEPT !.bathrooms = F(<<97>>)]}

\* Rows that vary what is stored: three places, two titles; one failing row
\* of each kind.
Rows ==
    {RowOf(l, t, FullCells) : l \in GoodLocCells, t \in GoodTitles}
    \cup {RowOf(BlankCityCells, F(<<84>>), FullCells)}
    \cup {RowOf(FirstLocCells, F(<<32>>), FullCells)}
    \cup {RowOf(FirstLocCells, F(<<84>>), d) : d \in BadDataCells}

\* Rows that vary how a row fails: one place, one title, every failing cell.
RunRows ==
    {RowOf(FirstLocCells, F(<<84>>), FullCells)}
    \cup {RowOf(l, F(<<84>>), FullCells) : l \in BadLocCells}
    \cup {RowOf(FirstLocCells, t, FullCells) : t \in BadTitles}
    \cup {RowOf(FirstLocCells, F(<<84>>), d) : d \in BadDataCells}

SecondLocCells == LocCells(F(<<66>>), F(<<88>>), F(<<83>>), Absent)

\* The rows of a three-row file whose second row has a blank title (" ", or no
\* title column) and whose first and third rows differ in title or in location
\* name: the set the reader can yield at the current position.
ScenarioRows ==
    IF row_num = 1
    THEN {RowOf(FirstLocCells, F(<<84>>), FullCells),
          RowOf(FirstLocCells, F(<<84>>), DefaultCells)}
    ELSE IF row_num = 2
    THEN {RowOf(l, t, FullCells) : l \in {FirstLocCells, SecondLocCells},
                                   t \in {F(<<32>>), Absent}}
    ELSE {RowOf(FirstLocCells, F(<<32, 85>>), FullCells),
          RowOf(SecondLocCells, F(<<84>>), FullCells),
          RowOf(SecondLocCells, F(<<32, 85>>), DefaultCells)}

\* Rows without usable location data: a blank (or missing) name, city or
\* state, also in a row cut short, under every kind of title and of other cells.
BlankLocCells ==
    {BlankCityCells,
     LocCells(F(<<>>), F(<<88>>), F(<<83>>), Absent),
     LocCells(F(<<67>>), F(<<88>>), F(<<9, 32>>), F(<<85, 75>>)),
     LocCells(Absent, F(<<88>>), F(<<83>>), Absent),
     LocCells(F(<<32>>), NoneCell, NoneCell, Absent)}

BlankLocationRows ==
    {RowOf(l, t, d) : l \in BlankLocCells, t \in GoodTitles \cup BadTitles,
                      d \in {FullCells, DefaultCells} \cup BadDataCells}
    \cup {RowOf(FirstLocCells, F(<<84>>), FullCells)}

\* Rows that vary the numeric cells: all given, none given, bedrooms "x" with
\* max_guests "4", bedrooms "3" with max_guests "", bedrooms None in a short
\* row, bathrooms "a", price_per_night "".
NumberCells ==
    {FullCells,
     DefaultCells,
     [FullCells EXCEPT !.bedrooms = F(<<120>>)],
     [FullCells EXCEPT !.max_guests = F(<<>>)],
     [DefaultCells EXCEPT !.bedrooms = NoneCell, !.max_guests = F(<<32, 53>>)],
     [FullCells EXCEPT !.bathrooms = F(<<97>>)],
     [FullCells EXCEPT !.price_per_night = F(<<>>)]}

NumberRows == {RowOf(FirstLocCells, t, d) : t \in GoodTitles, d \in NumberCells}

NoRow == RowOf(LocCells(Absent, Absent, Absent, Absent), Absent, DefaultCells)

\* An input file: whether open() finds it, how many data rows the reader
\* yields, and whether the read after them raises (undecodable bytes) instead
\* of ending the file.  The cells of a row are drawn when the row is read:
\* each row is read once, so this is the same as fixing them with the file.
File(found, n, undecodable) == [found |-> found, n |-> n, undecodable |-> undecodable]
ReadableFiles == {File(TRUE, n, FALSE) : n \in 0..MaxRows}
\* the empty file and the file of one data row
ShortFiles == {File(TRUE, 0, FALSE), File(TRUE, 1, FALSE)}
MissingFiles == {File(FALSE, 0, FALSE)}
UndecodableFiles == {File(TRUE, n, TRUE) : n \in 0..MaxRows}
NoFile == File(FALSE, 0, FALSE)
\* the file of three data rows
ScenarioFiles == {File(TRUE, 3, FALSE)}
\* the files of one and of two data rows
PairFiles == {File(TRUE, 1, FALSE), File(TRUE, 2, FALSE)}

(***************************************************************************)
(* PropertyImage.save().  A caller holds an instance (pk None when it is   *)
(* new) and runs the two statements of save(): the UPDATE that clears the  *)
(* other primaries, then Model.save().                                     *)
(***************************************************************************)
Callers == {1, 2}
Frame(pc_, id, property, is_primary, cleared) ==
    [pc |-> pc_, id |-> id, property |-> property, is_primary |-> is_primary,
     cleared |-> cleared]
IdleFrame == Frame("idle", NULL, NULL, FALSE, 0)

\* the rows the UPDATE of lines 81-84 matches
OtherPrimaries(is, inst) ==
    {i \in is : i.property = inst.property /\ i.is_primary /\ i.id # inst.id}

\* save() without its lines 79-84
ClearNothing(is, inst) == is

\* lines 79-84
ClearOtherPrimaries(is, inst) ==
    IF inst.is_primary
    THEN {IF i \in OtherPrimaries(is, inst) THEN [i EXCEPT !.is_primary = FALSE] ELSE i :
          i \in is}
    ELSE is

\* line 87, Model.save(): UPDATE the row of this pk, INSERT when there is none
WriteImage(is, inst, newId) ==
    LET id == IF inst.id = NULL THEN newId ELSE inst.id
    IN {i \in is : i.id # id}
       \cup {[id |-> id, property |-> inst.property, is_primary |-> inst.is_primary]}

\* Two import commands that run side by side, each with one row in hand:
\* where the run is in the row, the Location it resolved, how the row ended
\* and what became of its INSERT of the Location ("none", "done", "refused").
Runners == {1, 2}
RunFrame(pc_, r, location, msg, insert) ==
    [pc |-> pc_, row |-> r, location |-> location, msg |-> msg, insert |-> insert]
IdleRun == RunFrame("idle", NoRow, NULL, "", "none")

\* What the autocomplete endpoint answered to which q; status 0: no request yet
Response(status, q, data) == [status |-> status, q |-> q, data |-> data]
NoResponse == Response(0, Absent, <<>>)

(***************************************************************************)
(* Initial state: an empty database, no command running.                   *)
(***************************************************************************)
Msg(kind, n) == [kind |-> kind, n |-> n]

Init ==
    /\ locations = {}
    /\ properties = {}
    /\ images = {}
    /\ nextLocationId = 1
    /\ nextPropertyId = 1
    /\ nextImageId = 1
    /\ pc = "idle"
    /\ skip_location = FALSE
    /\ csv_file = NoFile
    /\ row_num = 1
    /\ row = NoRow
    /\ created_count = 0
    /\ updated_count = 0
    /\ error_count = 0
    /\ stdout = <<>>
    /\ savers = [c \in Callers |-> IdleFrame]
    /\ response = NoResponse
    /\ runs = [c \in Runners |-> IdleRun]

(***************************************************************************)
(* Command.handle, one action per step of the command.                     *)
(***************************************************************************)
\* lines 64-90: options, the two opening messages, open(), the counters
StartImport(files) ==
    /\ pc \in {"idle", "done", "fatal"}
    /\ \E f \in files, skip \in BOOLEAN :
        LET opening == <<Msg("starting", 0)>>
                       \o (IF skip THEN <<Msg("location_skipped", 0)>> ELSE <<>>)
        IN /\ csv_file' = f
           /\ skip_location' = skip
           /\ row_num' = 1
           /\ row' = NoRow
           /\ created_count' = 0
           /\ updated_count' = 0
           /\ error_count' = 0
           /\ IF f.found
              THEN pc' = "rows" /\ stdout' = opening
              ELSE pc' = "fatal" /\ stdout' = Append(opening, Msg("file_not_found", 0))
    /\ UNCHANGED <<storeVars, savers, response, runs>>

\* lines 93-221: the reader yields the next row and the loop body handles it
ImportRow(rows) ==
    /\ pc = "rows"
    /\ row_num - 1 < csv_file.n
    /\ \E r \in rows :
        LET out == ProcessRow(r, skip_location,
                       Store(locations, properties, nextLocationId, nextPropertyId))
        IN /\ out.store.nextLocationId <= MaxLocations + 1
           /\ out.store.nextPropertyId <= MaxProperties + 1
           /\ row' = r
           /\ row_num' = row_num + 1
           /\ locations' = out.store.locations
           /\ properties' = out.store.properties
           /\ nextLocationId' = out.store.nextLocationId
           /\ nextPropertyId' = out.store.nextPropertyId
           /\ created_count' = created_count + (IF out.msg = "created" THEN 1 ELSE 0)
           /\ updated_count' = updated_count + (IF out.msg = "updated" THEN 1 ELSE 0)
           /\ error_count' = error_count + (IF IsError(out.msg) THEN 1 ELSE 0)
           /\ stdout' = Append(stdout, Msg(out.msg, row_num + 1))
    /\ UNCHANGED <<images, nextImageId, pc, skip_location, csv_file, savers, response, runs>>

\* lines 224-231: the reader is exhausted, the summary is written
Summary ==
    <<Msg("summary_created", created_count), Msg("summary_updated", updated_count)>>
    \o (IF error_count > 0 THEN <<Msg("summary_errors", error_count)>> ELSE <<>>)

FinishImport ==
    /\ pc = "rows"
    /\ row_num - 1 = csv_file.n
    /\ ~csv_file.undecodable
    /\ pc' = "done"
    /\ stdout' = stdout \o Summary
    /\ UNCHANGED <<storeVars, skip_location, csv_file, row_num, row, created_count,
                   updated_count, error_count, savers, response, runs>>

\* lines 237-240: the reader raises, the outer handler reports it
FailReading ==
    /\ pc = "rows"
    /\ row_num - 1 = csv_file.n
    /\ csv_file.undecodable
    /\ pc' = "fatal"
    /\ stdout' = Append(stdout, Msg("error_reading", 0))
    /\ UNCHANGED <<storeVars, skip_location, csv_file, row_num, row, created_count,
                   updated_count, error_count, savers, response, runs>>

(***************************************************************************)
(* Deletions (the administrator, or any caller of Model.delete()).         *)
(***************************************************************************)
\* on_delete=CASCADE where the code has SET_NULL
CascadeProperties(ps, id) == {p \in ps : p.location # id}

\* Property.location: on_delete=SET_NULL
SetNullLocation(ps, id) ==
    {IF p.location = id THEN [p EXCEPT !.location = NULL] ELSE p : p \in ps}

DeleteLocation ==
    /\ \E l \in locations :
        /\ properties' = SetNullLocation(properties, l.id)
        /\ locations' = locations \ {l}
    /\ UNCHANGED <<images, nextLocationId, nextPropertyId, nextImageId, importVars,
                   savers, response, runs>>

\* on_delete=DO_NOTHING where the code has CASCADE
KeepImages(is, id) == is

\* PropertyImage.property: on_delete=CASCADE
CascadeImages(is, id) == {i \in is : i.property # id}

DeleteProperty ==
    /\ \E p \in properties :
        /\ images' = CascadeImages(images, p.id)
        /\ properties' = properties \ {p}
    /\ UNCHANGED <<locations, nextLocationId, nextPropertyId, nextImageId, importVars,
                   savers, response, runs>>

\* LocationAdmin: the administrator adds a Location; the form and the
\* database both refuse a duplicate (name, city, country).
AdminNames == {<<65>>}
AdminCities == {<<88>>, <<89>>}

AddLocation ==
    /\ nextLocationId <= MaxLocations
    /\ \E name \in AdminNames, city \in AdminCities :
        /\ ~ViolatesUniqueLocation(locations, name, city, <<85, 83, 65>>)
        /\ locations' = locations \cup {[id |-> nextLocationId, name |-> name,
               city |-> city, state |-> <<83>>, country |-> <<85, 83, 65>>,
               description |-> NoneCell]}
        /\ nextLocationId' = nextLocationId + 1
    /\ UNCHANGED <<properties, images, nextPropertyId, nextImageId, importVars,
                   savers, response, runs>>

\* PropertyAdmin: the administrator adds a Property, with or without a Location
AddProperty ==
    /\ nextPropertyId <= MaxProperties
    /\ \E location \in Ids(locations) \cup {NULL} :
        LET S == CreateProperty(Store(locations, properties, nextLocationId, nextPropertyId),
                     <<84>>, location, PropertyData(RowOf(FirstLocCells, F(<<84>>), DefaultCells)))
        IN /\ properties' = S.properties
           /\ nextPropertyId' = S.nextPropertyId
    /\ UNCHANGED <<locations, images, nextLocationId, nextImageId, importVars,
                   savers, response, runs>>

\* The instances a caller can hold: a new image or one that was loaded, of an
\* existing Property (the foreign key refuses any other), primary or not.
Instances ==
    {Frame("clear", id, p, b, 0) :
        id \in {NULL} \cup 1..(nextImageId - 1), p \in Ids(properties), b \in BOOLEAN}

\* lines 72-87, one call of save() from start to end
SaveImage ==
    /\ \E inst \in Instances :
        /\ inst.id = NULL => nextImageId <= MaxImages
        /\ images' = WriteImage(ClearOtherPrimaries(images, inst), inst, nextImageId)
        /\ nextImageId' = IF inst.id = NULL THEN nextImageId + 1 ELSE nextImageId
        /\ savers' = [savers EXCEPT ![1] =
               [inst EXCEPT !.pc = "done",
                            !.id = IF inst.id = NULL THEN nextImageId ELSE inst.id,
                            !.cleared = IF inst.is_primary
                                        THEN Cardinality(OtherPrimaries(images, inst))
                                        ELSE 0]]
    /\ UNCHANGED <<locations, properties, nextLocationId, nextPropertyId, importVars,
                   response, runs>>

\* The same call as its two statements, for callers that run side by side.
BeginSave(c) ==
    /\ savers[c].pc \in {"idle", "done"}
    /\ \E inst \in Instances : savers' = [savers EXCEPT ![c] = inst]
    /\ UNCHANGED <<storeVars, importVars, response, runs>>

\* lines 79-84
ClearStep(c) ==
    /\ savers[c].pc = "clear"
    /\ images' = ClearOtherPrimaries(images, savers[c])
    /\ savers' = [savers EXCEPT ![c].pc = "write",
                                ![c].cleared = IF savers[c].is_primary
                                               THEN Cardinality(OtherPrimaries(images, savers[c]))
                                               ELSE 0]
    /\ UNCHANGED <<locations, properties, nextLocationId, nextPropertyId, nextImageId,
                   importVars, response, runs>>

\* line 87; the INSERT of an image whose Property is gone is refused
WriteStep(c) ==
    /\ savers[c].pc = "write"
    /\ savers[c].id = NULL => nextImageId <= MaxImages
    /\ IF savers[c].property \in Ids(properties)
       THEN /\ images' = WriteImage(images, savers[c], nextImageId)
            /\ nextImageId' = IF savers[c].id = NULL THEN nextImageId + 1 ELSE nextImageId
            /\ savers' = [savers EXCEPT ![c].pc = "done",
                   ![c].id = IF savers[c].id = NULL THEN nextImageId ELSE savers[c].id]
       ELSE /\ UNCHANGED <<images, nextImageId>>
            /\ savers' = [savers EXCEPT ![c].pc = "done"]
    /\ UNCHANGED <<locations, properties, nextLocationId, nextPropertyId, importVars,
                   response, runs>>

\* Runs over short files (what a row does to the store does not depend on its
\* place in the file), with rows that vary what is stored, an administrator
\* who adds Locations, and deletions of Locations.
Next ==
    \/ StartImport(ShortFiles \cup MissingFiles)
    \/ ImportRow(Rows)
    \/ FinishImport
    \/ DeleteLocation
    \/ AddLocation

Spec == Init /\ [][Next]_vars

\* The image store: administrators add Locations and Properties and delete
\* Properties, and PropertyImage.save() is called, one call at a time.
NextImages ==
    \/ AddLocation
    \/ AddProperty
    \/ DeleteProperty
    \/ SaveImage

SpecImages == Init /\ [][NextImages]_vars

\* Two callers of PropertyImage.save() whose statements interleave.
NextSave ==
    \/ AddProperty
    \/ \E c \in Callers : BeginSave(c) \/ ClearStep(c) \/ WriteStep(c)

SpecSave == Init /\ [][NextSave]_vars

(***************************************************************************)
(* LocationViewSet.autocomplete                                            *)
(***************************************************************************)
\* line 99 without its test
NeverEmpty(query) == FALSE

\* line 99: if not query
EmptyQuery(query) == query = <<>>

\* lines 103-107 with the lookups on name and city only
MatchesNameCity(l, query) == IContains(l.name, query) \/ IContains(l.city, query)

\* lines 103-107: Q(name__icontains) | Q(city__icontains) | Q(state__icontains)
Matches(l, query) ==
    IContains(l.name, query) \/ IContains(l.city, query) \/ IContains(l.state, query)

\* Location.Meta.ordering = ['name']: every order ORDER BY name can return
\* (rows of equal name come in any order)
RECURSIVE OrderByName(_)
OrderByName(ls) ==
    IF ls = {} THEN {<<>>}
    ELSE LET first == {l \in ls : \A k \in ls : StrLeq(l.name, k.name)}
         IN UNION {{<<l>> \o rest : rest \in OrderByName(ls \ {l})} : l \in first}

\* a slice that keeps one row more than [:5]
LimitOneMore(seq, n) == SubSeq(seq, 1, IF Len(seq) < n + 1 THEN Len(seq) ELSE n + 1)

\* queryset[:n]
Limit(seq, n) == SubSeq(seq, 1, IF Len(seq) < n THEN Len(seq) ELSE n)

\* LocationSerializer: fields = ['id', 'name', 'city', 'state', 'country']
Serialize(l) == [id |-> l.id, name |-> l.name, city |-> l.city, state |-> l.state,
                 country |-> l.country]

\* The q parameter of the requests: missing, "", "  ", "mi", " MI ", "s", "q"
Queries ==
    {Absent, F(<<>>), F(<<32, 32>>), F(<<109, 105>>), F(<<32, 77, 73, 32>>),
     F(<<115>>), F(<<113>>)}

\* lines 92-116
Autocomplete ==
    /\ \E q \in Queries :
        LET query == Stripped(q, <<>>)
        IN IF EmptyQuery(query)
           THEN response' = Response(200, q, <<>>)
           ELSE \E seq \in OrderByName({l \in locations : Matches(l, query)}) :
                    response' = Response(200, q,
                        [i \in 1..Len(Limit(seq, 5)) |-> Serialize(Limit(seq, 5)[i])])
    /\ UNCHANGED <<storeVars, importVars, savers, runs>>

\* The registries the endpoint is asked about: any of nine Locations, eight of
\* which carry "mi" in some case in their name, city or state, two of them
\* with the same name.
Place(id, name, city, state) ==
    [id |-> id, name |-> name, city |-> city, state |-> state,
     country |-> <<85, 83, 65>>, description |-> NoneCell]

RegistryUniverse ==
    {Place(1, <<77, 105>>, <<88>>, <<83>>),
     Place(2, <<109, 105>>, <<88>>, <<83>>),
     Place(3, <<77, 73>>, <<88>>, <<83>>),
     Place(4, <<97, 77, 105>>, <<88>>, <<83>>),
     Place(5, <<77, 105>>, <<89>>, <<83>>),
     Place(6, <<98>>, <<109, 73>>, <<83>>),
     Place(7, <<99>>, <<88>>, <<77, 73>>),
     Place(8, <<90, 109, 105>>, <<88>>, <<83>>),
     Place(9, <<100>>, <<88>>, <<83>>)}

InitAutocomplete ==
    /\ locations \in SUBSET RegistryUniverse
    /\ properties = {}
    /\ images = {}
    /\ nextLocationId = Cardinality(RegistryUniverse) + 1
    /\ nextPropertyId = 1
    /\ nextImageId = 1
    /\ pc = "idle"
    /\ skip_location = FALSE
    /\ csv_file = NoFile
    /\ row_num = 1
    /\ row = NoRow
    /\ created_count = 0
    /\ updated_count = 0
    /\ error_count = 0
    /\ stdout = <<>>
    /\ savers = [c \in Callers |-> IdleFrame]
    /\ response = NoResponse
    /\ runs = [c \in Runners |-> IdleRun]

NextAutocomplete == Autocomplete

SpecAutocomplete == InitAutocomplete /\ [][NextAutocomplete]_vars

\* The command alone, over every kind of input file and failing row, with an
\* administrator who adds Locations.
NextRun ==
    \/ StartImport(ReadableFiles \cup MissingFiles \cup UndecodableFiles)
    \/ ImportRow(RunRows)
    \/ FinishImport
    \/ FailReading
    \/ AddLocation

SpecRun == Init /\ [][NextRun]_vars

\* The three-row file imported into a store without Properties, with an
\* administrator who adds Locations.
NextScenario ==
    \/ properties = {} /\ StartImport(ScenarioFiles)
    \/ ImportRow(ScenarioRows)
    \/ FinishImport
    \/ AddLocation

SpecScenario == Init /\ [][NextScenario]_vars

\* Runs without --skip-location over files of one or two rows, of one place
\* and two titles, whose numeric cells vary.
NextNumbers ==
    \/ StartImport(PairFiles) /\ ~skip_location'
    \/ ImportRow(NumberRows)
    \/ FinishImport

SpecNumbers == Init /\ [][NextNumbers]_vars

\* Runs over short files whose rows lack location data, on stores that hold
\* what a complete row and an administrator put there.
NextBlankLocation ==
    \/ StartImport(ShortFiles)
    \/ ImportRow(BlankLocationRows)
    \/ FinishImport
    \/ AddLocation

SpecBlankLocation == Init /\ [][NextBlankLocation]_vars

(***************************************************************************)
(* Two import runs side by side.  The command opens no transaction of its  *)
(* own, so between the statements of one row the other run can act: the    *)
(* SELECT and the INSERT of get_or_create are two steps, the writes of     *)
(* lines 131-212 (update_or_create runs in transaction.atomic) are one.    *)
(***************************************************************************)
\* T at " A ",X,S;  " U" at A,X,Z (the same place, another state);  T at A,Y,S,UK
RaceRows ==
    {RowOf(FirstLocCells, F(<<84>>), FullCells),
     RowOf(LocCells(F(<<65>>), F(<<88>>), F(<<90>>), Absent), F(<<32, 85>>), DefaultCells),
     RowOf(LocCells(F(<<65>>), F(<<89>>), F(<<83>>), F(<<85, 75>>)), F(<<84>>), FullCells)}

\* lines 131-212 of a row whose Location is resolved
RestOfRow(r, S, location) ==
    IF StripRaises(Get(r.title, <<>>)) THEN Outcome("exception", S)
    ELSE IF Stripped(r.title, <<>>) = <<>> THEN Outcome("missing_title", S)
    ELSE IF DecimalRaises(r.bathrooms) \/ DecimalRaises(r.price_per_night)
    THEN Outcome("exception", S)
    ELSE IF PropertyDataRaises(r) THEN Outcome("exception", S)
    ELSE IF SaveRaises(PropertyData(r)) THEN Outcome("exception", S)
    ELSE CreateOrUpdate(FALSE, S, Stripped(r.title, <<>>), location, PropertyData(r))

\* lines 100-115: the run takes a row and tests its location cells
ReadRow(c) ==
    /\ runs[c].pc = "idle"
    /\ \E r \in RaceRows :
        runs' = [runs EXCEPT ![c] =
            IF \/ StripRaises(Get(r.location, <<>>)) \/ StripRaises(Get(r.city, <<>>))
               \/ StripRaises(Get(r.state, <<>>)) \/ StripRaises(Get(r.country, <<85, 83, 65>>))
            THEN RunFrame("done", r, NULL, "exception", "none")
            ELSE IF \/ Stripped(r.location, <<>>) = <<>> \/ Stripped(r.city, <<>>) = <<>>
                    \/ Stripped(r.state, <<>>) = <<>>
            THEN RunFrame("done", r, NULL, "missing_location", "none")
            ELSE RunFrame("lookup", r, NULL, "", "none")]
    /\ UNCHANGED <<storeVars, importVars, savers, response>>

\* line 118, first half of get_or_create: self.get(name=location_name)
LookupLocation(c) ==
    /\ runs[c].pc = "lookup"
    /\ LET r == runs[c].row
           found == {l \in locations : l.name = Stripped(r.location, <<>>)}
       IN runs' = [runs EXCEPT ![c] =
              IF Cardinality(found) > 1
              THEN RunFrame("done", r, NULL, "exception", "none")
              ELSE IF Cardinality(found) = 1
              THEN RunFrame("property", r, (CHOOSE l \in found : TRUE).id, "", "none")
              ELSE RunFrame("create", r, NULL, "", "none")]
    /\ UNCHANGED <<storeVars, importVars, savers, response>>

\* line 118, second half of get_or_create: the INSERT; when unique_location
\* refuses it (IntegrityError), self.get(name=location_name) once more
CreateLocation(c) ==
    /\ runs[c].pc = "create"
    /\ LET r == runs[c].row
           location_name == Stripped(r.location, <<>>)
           city == Stripped(r.city, <<>>)
           state == Stripped(r.state, <<>>)
           country == Stripped(r.country, <<85, 83, 65>>)
           found == {l \in locations : l.name = location_name}
       IN IF ViolatesUniqueLocation(locations, location_name, city, country)
          THEN /\ runs' = [runs EXCEPT ![c] =
                      IF Cardinality(found) = 1
                      THEN RunFrame("property", r, (CHOOSE l \in found : TRUE).id, "", "refused")
                      ELSE RunFrame("done", r, NULL, "exception", "refused")]
               /\ UNCHANGED <<locations, nextLocationId>>
          ELSE /\ locations' = locations \cup {[id |-> nextLocationId,
                      name |-> location_name, city |-> city, state |-> state,
                      country |-> country, description |-> NoneCell]}
               /\ nextLocationId' = nextLocationId + 1
               /\ runs' = [runs EXCEPT ![c] =
                      RunFrame("property", r, nextLocationId, "", "done")]
    /\ UNCHANGED <<properties, images, nextPropertyId, nextImageId, importVars,
                   savers, response>>

\* lines 131-221: the rest of the row and its count
WriteProperty(c) ==
    /\ runs[c].pc = "property"
    /\ LET out == RestOfRow(runs[c].row,
                      Store(locations, properties, nextLocationId, nextPropertyId),
                      runs[c].location)
       IN /\ properties' = out.store.properties
          /\ nextPropertyId' = out.store.nextPropertyId
          /\ runs' = [runs EXCEPT ![c] = [@ EXCEPT !.pc = "done", !.msg = out.msg]]
    /\ UNCHANGED <<locations, images, nextLocationId, nextImageId, importVars,
                   savers, response>>

\* The administrator fills the store, then two runs take one row each.
NextRace ==
    \/ (\A c \in Runners : runs[c].pc = "idle") /\ AddLocation
    \/ \E c \in Runners : ReadRow(c)
    \/ \E c \in Runners : LookupLocation(c)
    \/ \E c \in Runners : CreateLocation(c)
    \/ \E c \in Runners : WriteProperty(c)

SpecRace == Init /\ [][NextRace]_vars



(***************************************************************************)
(* The two property lists: property_list (pages of 9, rendered to HTML)    *)
(* and PropertyViewSet.list (pages of 10, JSON).                           *)
(***************************************************************************)
MaxListings == 25   \* Properties in the store the lists are asked about

\* Paginator(properties, 9)
HumanPageSize == 9
\* REST_FRAMEWORK['PAGE_SIZE']
ApiPageSize == 10

\* Property.Meta.ordering and PropertyViewSet.ordering, ['-created_at']:
\* newest first; identifiers are handed out in creation order
RECURSIVE OrderByNewest(_)
OrderByNewest(ps) ==
    IF ps = {} THEN <<>>
    ELSE LET newest == CHOOSE p \in ps : \A k \in ps : k.id <= p.id
         IN <<newest>> \o OrderByNewest(ps \ {newest})

\* the join on location and the three LIKE tests; a null location joins nothing
LocationIContains(p, ls, query, withState) ==
    \E l \in ls :
        /\ l.id = p.location
        /\ \/ IContains(l.name, query)
           \/ IContains(l.city, query)
           \/ withState /\ IContains(l.state, query)

\* views.py line 53 without  .filter(is_available=True)
AllProperties(ps) == ps

\* views.py line 53
AvailableProperties(ps) == {p \in ps : p.is_available}

\* views.py lines 53-76: the queryset of the page
HumanQueryset(ps, ls, location) ==
    LET location_query == Stripped(location, <<>>)
    IN IF location_query # <<>>
       THEN {p \in AvailableProperties(ps) : LocationIContains(p, ls, location_query, TRUE)}
       ELSE AvailableProperties(ps)

\* Paginator.num_pages with allow_empty_first_page and no orphans
NumPages(count, per_page) ==
    IF count = 0 THEN 1 ELSE (count + per_page - 1) \div per_page

\* Paginator.validate_number: "not_an_integer", "empty" or the number
ValidateNumber(page, num_pages) ==
    IF page.kind # "str" \/ ~IntParses(page.s) THEN [err |-> "not_an_integer", n |-> 0]
    ELSE IF IntValue(page.s) < 1 THEN [err |-> "empty", n |-> 0]
    ELSE IF IntValue(page.s) > num_pages THEN [err |-> "empty", n |-> 0]
    ELSE [err |-> "", n |-> IntValue(page.s)]

\* get_page that sends a number that is out of range to page 1
GetPageFirstOnEmpty(page, num_pages) ==
    LET v == ValidateNumber(page, num_pages)
    IN IF v.err = "" THEN v.n ELSE 1

\* Paginator.get_page: page 1 for what is no integer, the last page for a
\* number that is out of range
GetPage(page, num_pages) ==
    LET v == ValidateNumber(page, num_pages)
    IN IF v.err = "not_an_integer" THEN 1
       ELSE IF v.err = "empty" THEN num_pages
       ELSE v.n

\* a slice that starts one item early on the pages after the first
PageSliceOverlapping(seq, number, per_page) ==
    SubSeq(seq, IF number = 1 THEN 1 ELSE (number - 1) * per_page,
           IF number * per_page < Len(seq) THEN number * per_page ELSE Len(seq))

\* Paginator.page: object_list[bottom:top]
PageSlice(seq, number, per_page) ==
    SubSeq(seq, (number - 1) * per_page + 1,
           IF number * per_page < Len(seq) THEN number * per_page ELSE Len(seq))

\* What a list answered: the surface, the location and page parameters, the
\* status, the page's items and numbers, and the count of all matches
ListResponse(surface, status, q, page, data, number, num_pages, total) ==
    [surface |-> surface, status |-> status, q |-> q, page |-> page, data |-> data,
     number |-> number, num_pages |-> num_pages,
     has_previous |-> number > 1, has_next |-> number < num_pages, total |-> total]

\* The location parameter: missing, "", " ", "mi", " MI ", "q", "1", "7"
ListQueries ==
    {Absent, F(<<>>), F(<<32>>), F(<<109, 105>>), F(<<32, 77, 73, 32>>), F(<<113>>),
     F(<<49>>), F(<<55>>)}

\* The page parameter: missing, "1", "2", "3", "4", "0", "x"
PageParams ==
    {Absent, F(<<49>>), F(<<50>>), F(<<51>>), F(<<52>>), F(<<48>>), F(<<120>>)}

\* views.py lines 53-107
PropertyList ==
    /\ \E q \in ListQueries, page \in PageParams :
        LET matches == HumanQueryset(properties, locations, q)
            num_pages == NumPages(Cardinality(matches), HumanPageSize)
            number == GetPage(page, num_pages)
        IN response' = ListResponse("human", 200, q, page,
               PageSlice(OrderByNewest(matches), number, HumanPageSize),
               number, num_pages, Cardinality(matches))
    /\ UNCHANGED <<storeVars, importVars, savers, runs>>

\* api_views.py lines 165-186, get_queryset: the text filter on name and city
ApiQueryset(ps, ls, location) ==
    IF location.kind = "str" /\ location.s # <<>>
    THEN {p \in ps : LocationIContains(p, ls, location.s, FALSE)}
    ELSE ps

\* filterset_fields = ['location', ...]: DjangoFilterBackend reads the same
\* parameter as the primary key of a Location; a value that is not the key of
\* an existing Location does not validate
FilterLocationInvalid(ls, location) ==
    /\ location.kind = "str" /\ location.s # <<>>
    /\ ~(IntParses(location.s) /\ IntValue(location.s) \in Ids(ls))

FilterLocation(ps, location) ==
    IF location.kind = "str" /\ location.s # <<>>
    THEN {p \in ps : p.location = IntValue(location.s)}
    ELSE ps

\* PropertyListSerializer, the fields the properties below read
SerializeListed(p) ==
    [id |-> p.id, title |-> p.title, location |-> p.location,
     is_available |-> p.is_available]

\* PropertyListSerializer(page, many=True)
SerializePage(seq) == [i \in 1..Len(seq) |-> SerializeListed(seq[i])]

\* PageNumberPagination.paginate_queryset: page defaults to 1 and
\* paginator.page() raises for any number validate_number refuses
ApiPageNumber(page, num_pages) ==
    IF page.kind = "absent" THEN [err |-> "", n |-> 1] ELSE ValidateNumber(page, num_pages)

\* PropertyViewSet.list: get_queryset, filter_queryset, paginate_queryset
ApiPropertyList ==
    /\ \E q \in ListQueries, page \in PageParams :
        LET matches == FilterLocation(ApiQueryset(properties, locations, q), q)
            num_pages == NumPages(Cardinality(matches), ApiPageSize)
            v == ApiPageNumber(page, num_pages)
            items == PageSlice(OrderByNewest(matches), v.n, ApiPageSize)
        IN IF FilterLocationInvalid(locations, q)
           THEN response' = ListResponse("api", 400, q, page, <<>>, 0, 0, 0)
           ELSE IF v.err # ""
           THEN response' = ListResponse("api", 404, q, page, <<>>, 0, 0, 0)
           ELSE response' = ListResponse("api", 200, q, page, SerializePage(items),
                    v.n, num_pages, Cardinality(matches))
    /\ UNCHANGED <<storeVars, importVars, savers, runs>>

\* The stores the lists are asked about: four Locations ("Mi" by name, "mI" by
\* city, "MI" by state, none) and n Properties, Property i at Location i mod 5
\* (none when 0), either all available or every third one unavailable.
ListedLocations ==
    {Place(1, <<77, 105>>, <<88>>, <<83>>),
     Place(2, <<98>>, <<109, 73>>, <<83>>),
     Place(3, <<99>>, <<88>>, <<77, 73>>),
     Place(4, <<100, 49>>, <<88>>, <<83>>)}

Listing(i, available) ==
    [id |-> i, title |-> <<84>>, location |-> i % 5, description |-> <<>>,
     property_type |-> <<>>, bedrooms |-> 1, bathrooms |-> 10, max_guests |-> 2,
     price_per_night |-> 10000, address |-> <<>>, amenities |-> <<>>,
     is_available |-> available]

InitLists ==
    /\ locations = ListedLocations
    /\ \E n \in 0..MaxListings, everyThirdOff \in BOOLEAN :
        /\ properties = {Listing(i, ~(everyThirdOff /\ i % 3 = 0)) : i \in 1..n}
        /\ nextPropertyId = n + 1
    /\ images = {}
    /\ nextLocationId = Cardinality(ListedLocations) + 1
    /\ nextImageId = 1
    /\ pc = "idle"
    /\ skip_location = FALSE
    /\ csv_file = NoFile
    /\ row_num = 1
    /\ row = NoRow
    /\ created_count = 0
    /\ updated_count = 0
    /\ error_count = 0
    /\ stdout = <<>>
    /\ savers = [c \in Callers |-> IdleFrame]
    /\ response = NoResponse
    /\ runs = [c \in Runners |-> IdleRun]

\* Requests to the human-facing list
NextHumanList == PropertyList

SpecHumanList == InitLists /\ [][NextHumanList]_vars

\* Requests to the machine-facing list
NextApiList == ApiPropertyList

SpecApiList == InitLists /\ [][NextApiList]_vars


(***************************************************************************)
(* Properties.                                                             *)
(***************************************************************************)
RowKinds == {"created", "updated", "missing_location", "missing_title", "exception"}
ErrorKinds == {"missing_location", "missing_title", "exception"}
IsRowMsg(m) == m.kind \in RowKinds
RowMsgs == SelectSeq(stdout, IsRowMsg)
CountKinds(ms, kinds) == Cardinality({i \in 1..Len(ms) : ms[i].kind \in kinds})
Readable(f) == f.found /\ ~f.undecodable

\* one iteration of the row loop has just run
RowStep == pc = "rows" /\ row_num' = row_num + 1

Blank(cell, default) == Get(cell, default).kind = "str" /\ Stripped(cell, default) = <<>>

\* the three ways a row fails
MissingLocationData(r) ==
    \/ Blank(r.location, <<>>) \/ Blank(r.city, <<>>) \/ Blank(r.state, <<>>)
BlankTitle(r) == Blank(r.title, <<>>)
RowRaises(r, skip, ls) ==
    \/ \E c \in {r.title, r.description, r.property_type, r.address, r.amenities,
                 r.is_available} : c.kind = "none"
    \/ ~skip /\ \E c \in {r.location, r.city, r.state, r.country} : c.kind = "none"
    \/ \E c \in {r.bathrooms, r.price_per_night} : c.kind = "str" /\ ~DecimalParses(c.s)
    \/ ~skip /\ Cardinality({l \in ls : l.name = Stripped(r.location, <<>>)}) > 1
    \/ NumDigits(PropertyData(r).bathrooms) > 3
    \/ NumDigits(PropertyData(r).price_per_night) > 10
RowFails(r, skip, ls) ==
    (~skip /\ MissingLocationData(r)) \/ BlankTitle(r) \/ RowRaises(r, skip, ls)

C1InOrder ==
    (Readable(csv_file) /\ pc \in {"rows", "done"}) =>
        /\ Len(RowMsgs) = row_num - 1
        /\ \A i \in 1..Len(RowMsgs) : RowMsgs[i].n = i + 1
        /\ row_num - 1 <= csv_file.n
        /\ error_count = CountKinds(RowMsgs, ErrorKinds)
        /\ created_count = CountKinds(RowMsgs, {"created"})
        /\ updated_count = CountKinds(RowMsgs, {"updated"})

C1SummaryAtEnd ==
    /\ Readable(csv_file) => pc # "fatal"
    /\ pc = "done" =>
        /\ row_num - 1 = csv_file.n
        /\ \E i \in 1..Len(stdout) :
            /\ stdout[i] = Msg("summary_created", created_count)
            /\ stdout[i + 1] = Msg("summary_updated", updated_count)
            /\ \A j \in 1..(i - 1) : stdout[j].kind \in RowKinds \cup {"starting", "location_skipped"}
            /\ IF error_count > 0
               THEN Len(stdout) = i + 2 /\ stdout[i + 2] = Msg("summary_errors", error_count)
               ELSE Len(stdout) = i + 1

C1FailedRowSkipped ==
    (RowStep /\ RowFails(row', skip_location, locations)) =>
        /\ error_count' = error_count + 1
        /\ created_count' = created_count /\ updated_count' = updated_count
        /\ properties' = properties
        /\ pc' = "rows"

\* C1: a run over a readable input handles every data row once and in file
\* order; a failing row (missing location data, blank title, or an exception)
\* adds one to the error count and touches no Property, the loop goes on, and
\* the run can only end with the summary of the three counts (never aborted).
C1_EveryRowProcessedOnce ==
    /\ [](C1InOrder /\ C1SummaryAtEnd)
    /\ [][C1FailedRowSkipped]_vars

\* a two-row run is over: its first row failed, its second was created
C1_Witness ==
    /\ pc = "done" /\ csv_file.n = 2 /\ Len(RowMsgs) = 2
    /\ RowMsgs[1].kind = "exception" /\ RowMsgs[2].kind = "created"
    /\ error_count = 1 /\ created_count = 1


\* the Properties a located row is matched against: same trimmed title, and
\* the Location that carries the row's trimmed location name
MatchingProperties(r, ls, ps) ==
    {p \in ps : /\ p.title = Stripped(r.title, <<>>)
                /\ \E l \in ls : l.name = Stripped(r.location, <<>>) /\ p.location = l.id}

C2UpdatesInPlace ==
    (RowStep /\ ~skip_location /\ ~RowFails(row', FALSE, locations)) =>
        IF MatchingProperties(row', locations, properties) # {}
        THEN /\ updated_count' = updated_count + 1
             /\ created_count' = created_count /\ error_count' = error_count
             /\ Ids(properties') = Ids(properties)
             /\ Cardinality(properties') = Cardinality(properties)
             /\ nextPropertyId' = nextPropertyId
             /\ \A p \in MatchingProperties(row', locations, properties) :
                    \E q \in properties' :
                        q.id = p.id /\ q.title = p.title /\ q.location = p.location
             /\ \A p \in properties \ MatchingProperties(row', locations, properties) :
                    p \in properties'
        ELSE /\ created_count' = created_count + 1
             /\ updated_count' = updated_count /\ error_count' = error_count
             /\ Ids(properties') = Ids(properties) \cup {nextPropertyId}

\* C2: a row imported without --skip-location whose (trimmed title, resolved
\* Location) is the one of an existing Property updates that Property in place:
\* one more "updated", same identifiers, same number of Properties; otherwise
\* the row is created.  Hence the same one-row file gives 1 created / 0 updated,
\* then 0 created / 1 updated.
C2_ReimportUpdatesInPlace == [][C2UpdatesInPlace]_vars

\* the second run over a one-row file is over: nothing created, one updated
C2_Witness ==
    /\ pc = "done" /\ ~skip_location /\ csv_file.n = 1
    /\ created_count = 0 /\ updated_count = 1 /\ error_count = 0
    /\ nextPropertyId = 2 /\ Cardinality(properties) = 1

C3SkipCreates ==
    (RowStep /\ skip_location) =>
        /\ locations' = locations /\ nextLocationId' = nextLocationId
        /\ properties \subseteq properties'
        /\ (~BlankTitle(row') /\ ~RowRaises(row', TRUE, locations)) =>
            /\ created_count' = created_count + 1
            /\ updated_count' = updated_count /\ error_count' = error_count
            /\ nextPropertyId \notin Ids(properties)
            /\ \E q \in properties' :
                /\ q.id = nextPropertyId /\ q.location = NULL
                /\ q.title = Stripped(row'.title, <<>>)
                /\ properties' = properties \cup {q}

\* C3: with --skip-location a row with a non-blank title that does not raise
\* creates a new Property with a null Location and counts as created, whatever
\* Properties exist; no row of such a run changes an existing Property or the
\* Locations, and the row's location cells play no part.
C3_SkipLocationAlwaysCreates == [][C3SkipCreates]_vars

\* a --skip-location run has created a second Property with the title of the first
C3_Witness ==
    /\ skip_location /\ created_count = 1
    /\ \E p, q \in properties :
        p.id # q.id /\ p.title = q.title /\ p.location = NULL /\ q.location = NULL

\* C4: no two Locations share (name, city, country), after any sequence of
\* import runs over a registry that administrators fill within the constraint.
C4_LocationTripleUnique == UniqueLocation(locations)

\* a located row named a place that two Locations of different cities carry
C4_Witness ==
    /\ pc = "done" /\ ~skip_location /\ csv_file.n = 1
    /\ \E a, b \in locations :
        /\ a.id # b.id /\ a.name = b.name /\ a.city # b.city
        /\ a.name = Stripped(row.location, <<>>)

C7SetNull ==
    \A l \in locations :
        l \notin locations' =>
            /\ Cardinality(properties') = Cardinality(properties)
            /\ \A p \in properties :
                IF p.location = l.id
                THEN [p EXCEPT !.location = NULL] \in properties'
                ELSE p \in properties'

\* C7: deleting a Location deletes no Property; the Properties that referenced
\* it are kept with a null location and nothing else changed, the others are
\* untouched.
C7_DeleteLocationKeepsProperties == [][C7SetNull]_vars

\* the only Property ever created was imported with a Location and has none now
C7_Witness ==
    /\ pc = "done" /\ ~skip_location /\ created_count = 1 /\ nextPropertyId = 2
    /\ \E p \in properties : p.location = NULL


PrimariesOf(id) == {i \in images : i.property = id /\ i.is_primary}
AtMostOnePrimary == \A p \in properties : Cardinality(PrimariesOf(p.id)) <= 1

\* a row written with is_primary = true is the only primary of its Property
C5SavedPrimaryIsSole ==
    \A x \in images' :
        (x \notin images /\ x.is_primary) =>
            {i \in images' : i.property = x.property /\ i.is_primary} = {x}

\* C5: after any sequence of PropertyImage.save() calls made one at a time,
\* every Property has at most one primary image, and right after a save of an
\* image with is_primary = true that image is the only primary of its Property.
C5_AtMostOnePrimary == [](AtMostOnePrimary) /\ [][C5SavedPrimaryIsSole]_vars

\* the last save() set its image primary and took the flag from another image
C5_Witness ==
    /\ savers[1].pc = "done" /\ savers[1].is_primary /\ savers[1].cleared = 1
    /\ \E i, j \in images :
        /\ i.id = savers[1].id /\ i.is_primary
        /\ j.id # i.id /\ j.property = i.property /\ ~j.is_primary

\* C6: when two save() calls that each set a different image of one Property
\* primary run side by side, no state after both are over has two primary
\* images for that Property.
C6_ConcurrentSavesKeepOnePrimary ==
    (\A c \in Callers : savers[c].pc \in {"idle", "done"}) => AtMostOnePrimary

C8NoOrphan == \A i \in images : i.property \in Ids(properties)

C8Cascade ==
    \A p \in properties :
        p.id \notin Ids(properties') =>
            /\ images' = {i \in images : i.property # p.id}
            /\ locations' = locations

\* C8: deleting a Property deletes the images it owns and no other image and
\* leaves its Location in place, so that every PropertyImage always references
\* a Property that exists.
C8_DeletePropertyCascadesToImages == [](C8NoOrphan) /\ [][C8Cascade]_vars

\* a Property that had an image is gone with it; the image of another Property
\* and a Location are still there
C8_Witness ==
    /\ Cardinality(properties) < nextPropertyId - 1
    /\ Cardinality(images) < nextImageId - 1
    /\ images # {} /\ locations # {}


\* q occurs in s, letter case aside
OccursIn(q, s) ==
    \E i \in 0..(Len(s) - Len(q)) :
        \A k \in 1..Len(q) : LowerChar(s[i + k]) = LowerChar(q[k])

Matching(q) ==
    {Serialize(l) : l \in {k \in locations :
        OccursIn(q, k.name) \/ OccursIn(q, k.city) \/ OccursIn(q, k.state)}}

Min(a, b) == IF a < b THEN a ELSE b

\* C9: for a query that is not empty after trimming, the response holds
\* min(5, n) of the n Locations whose name, city or state contains the query
\* whatever the letter case, in ascending name order, and no Location left out
\* has a name smaller than one returned.
C9_AutocompleteFirstFiveByName ==
    (response.status = 200 /\ Stripped(response.q, <<>>) # <<>>) =>
        LET q == Stripped(response.q, <<>>)
            data == response.data
            returned == {data[i] : i \in 1..Len(data)}
        IN /\ Len(data) = Min(5, Cardinality(Matching(q)))
           /\ Cardinality(returned) = Len(data)
           /\ returned \subseteq Matching(q)
           /\ \A i, j \in 1..Len(data) : i < j => StrLeq(data[i].name, data[j].name)
           /\ \A x \in Matching(q) \ returned :
                  \A i \in 1..Len(data) : StrLeq(data[i].name, x.name)

\* a query that eight Locations match was answered with five of them
C9_Witness ==
    /\ response.status = 200 /\ Stripped(response.q, <<>>) = <<109, 105>>
    /\ Cardinality(Matching(<<109, 105>>)) = 8
    /\ Len(response.data) = 5

\* C10: a missing, empty or whitespace-only query is answered with an empty
\* list, whatever Locations exist.
C10_EmptyQueryEmptyList ==
    (response.status = 200 /\ Stripped(response.q, <<>>) = <<>>) => response.data = <<>>

\* a whitespace-only query was answered while Locations exist
C10_Witness ==
    /\ response.status = 200 /\ response.q = F(<<32, 32>>) /\ response.data = <<>>
    /\ locations # {}


StoreNow == Store(locations, properties, nextLocationId, nextPropertyId)
StoreNext == Store(locations', properties', nextLocationId', nextPropertyId')

C11BlankTitleOneError ==
    (RowStep /\ BlankTitle(row')) =>
        /\ error_count' = error_count + 1
        /\ created_count' = created_count /\ updated_count' = updated_count
        /\ properties' = properties /\ nextPropertyId' = nextPropertyId
        /\ pc' = "rows"

\* what any row would end as is the same after the blank-title row as before it
C11OthersUnaffected ==
    (RowStep /\ BlankTitle(row')) =>
        \A r \in Rows \cup RunRows :
            ProcessRow(r, skip_location, StoreNext).msg
                = ProcessRow(r, skip_location, StoreNow).msg

C11Scenario ==
    (/\ pc = "done" /\ csv_file.n = 3
     /\ RowMsgs[1].kind \notin ErrorKinds /\ RowMsgs[3].kind \notin ErrorKinds) =>
        created_count = 2 /\ updated_count = 0 /\ error_count = 1

\* C11: a row whose title is blank after trimming adds exactly one to the error
\* count, creates and updates no Property, and leaves what any other row ends as
\* unchanged; a three-row file whose rows 1 and 3 are imported and differ in
\* title or location name and whose row 2 has a blank title, run on a store
\* without Properties, ends with 2 created, 0 updated, 1 error.
C11_BlankTitleIsOneError ==
    /\ [](C11Scenario)
    /\ [][C11BlankTitleOneError /\ C11OthersUnaffected]_vars

\* the three-row run is over: 2 created, 1 error, the error being the blank title
C11_Witness ==
    /\ pc = "done" /\ csv_file.n = 3 /\ Len(RowMsgs) = 3
    /\ RowMsgs[1].kind = "created" /\ RowMsgs[2].kind = "missing_title"
    /\ RowMsgs[3].kind = "created"
    /\ created_count = 2 /\ updated_count = 0 /\ error_count = 1


IsSummaryMsg(m) == m.kind \in {"summary_created", "summary_updated", "summary_errors"}

\* C12: a run that ended with a run-level fatal error (file not found, input
\* undecodable) has processed no row: no row message, nothing created or
\* updated, and it has written no summary.
C12_FatalBeforeAnyRow ==
    pc = "fatal" =>
        /\ row_num = 1 /\ RowMsgs = <<>>
        /\ created_count = 0 /\ updated_count = 0 /\ error_count = 0
        /\ SelectSeq(stdout, IsSummaryMsg) = <<>>


\* the available Properties whose Location carries t in its name, city or state
\* (all available Properties when t is empty)
ExpectedListed(t) ==
    {p \in properties :
        /\ p.is_available
        /\ t # <<>> =>
            \E l \in locations :
                /\ l.id = p.location
                /\ OccursIn(t, l.name) \/ OccursIn(t, l.city) \/ OccursIn(t, l.state)}

Items(seq) == {seq[i] : i \in 1..Len(seq)}

HumanAnswered == response.status = 200 /\ response.surface = "human"

\* C13: the human-facing list holds only, and counts exactly, the available
\* Properties when the location text is missing or blank, and otherwise the
\* available Properties whose Location's name, city or state contains the
\* trimmed text whatever the letter case; a list of one page shows them all.
C13_HumanListFilters ==
    HumanAnswered =>
        LET expected == ExpectedListed(Stripped(response.q, <<>>))
        IN /\ response.total = Cardinality(expected)
           /\ Items(response.data) \subseteq expected
           /\ response.num_pages = 1 => Items(response.data) = expected

\* " MI " was asked of a store with unavailable and unlocated Properties and
\* Locations that match by name, by city, by state and not at all
C13_Witness ==
    /\ HumanAnswered /\ response.q = F(<<32, 77, 73, 32>>)
    /\ response.num_pages = 1 /\ Len(response.data) = 4
    /\ {x.location : x \in Items(response.data)} = {1, 2, 3}
    /\ \E p \in properties : ~p.is_available /\ p.location = 1
    /\ \E p \in properties : p.is_available /\ p.location = NULL
    /\ \E p \in properties : p.is_available /\ p.location = 4


\* the Properties, available or not, whose Location carries t in its name or city
ExpectedApiListed(t) ==
    {p \in properties :
        \E l \in locations : l.id = p.location /\ (OccursIn(t, l.name) \/ OccursIn(t, l.city))}

ApiAnswered == response.status # 0 /\ response.surface = "api"

\* C14: a request to the machine-facing list with a location text (and no page
\* parameter) succeeds, and what it lists and counts are exactly the
\* Properties, available or not, whose Location's name or city contains the
\* text whatever the letter case.
C14_ApiLocationTextFilter ==
    (/\ ApiAnswered /\ response.page = Absent
     /\ response.q.kind = "str" /\ response.q.s # <<>>) =>
        /\ response.status = 200
        /\ response.total = Cardinality(ExpectedApiListed(response.q.s))
        /\ {x.id : x \in Items(response.data)} \subseteq Ids(ExpectedApiListed(response.q.s))


\* ceil(n / 9)
HumanPagesFor(n) == (n + HumanPageSize - 1) \div HumanPageSize

\* the page holds, newest first, the matches that follow the 9 * (number - 1)
\* newest ones
C15PageIsSlice ==
    LET expected == ExpectedListed(Stripped(response.q, <<>>))
        data == response.data
    IN \A i \in 1..Len(data) :
          /\ data[i] \in expected
          /\ Cardinality({p \in expected : p.id > data[i].id})
                 = HumanPageSize * (response.number - 1) + i - 1

\* C15: with N matches a response of the human-facing list reports total N; a
\* page number within 1..ceil(N/9) is answered with that page; every page but
\* the last holds 9 items and the last N - 9 * (ceil(N/9) - 1); page k holds
\* the k-th run of 9 of the matches, so that the pages partition them;
\* has_previous is false exactly on page 1 and has_next exactly on the last.
C15_HumanPagesPartition ==
    (HumanAnswered /\ response.total > 0) =>
        LET N == response.total
            last == HumanPagesFor(N)
        IN /\ N = Cardinality(ExpectedListed(Stripped(response.q, <<>>)))
           /\ response.num_pages = last
           /\ response.number \in 1..last
           /\ (/\ response.page.kind = "str" /\ IntParses(response.page.s)
               /\ IntValue(response.page.s) \in 1..last)
                  => response.number = IntValue(response.page.s)
           /\ Len(response.data) = IF response.number < last
                                   THEN HumanPageSize
                                   ELSE N - HumanPageSize * (last - 1)
           /\ C15PageIsSlice
           /\ response.has_previous <=> response.number # 1
           /\ response.has_next <=> response.number # last

\* page 3 of 25 available Properties: 7 items, no next page
C15_Witness ==
    /\ HumanAnswered /\ response.total = 25 /\ response.page = F(<<51>>)
    /\ response.number = 3 /\ Len(response.data) = 7
    /\ ~response.has_next /\ response.has_previous

\* C16: the human-facing list never answers with an error; a page number
\* beyond the last page is answered with the last page, and with no match at
\* all the answer is one empty page: total 0, no previous and no next page.
C16_HumanPageClamped ==
    (response.status # 0 /\ response.surface = "human") =>
        LET N == Cardinality(ExpectedListed(Stripped(response.q, <<>>)))
            last == IF N = 0 THEN 1 ELSE HumanPagesFor(N)
        IN /\ response.status = 200
           /\ (/\ response.page.kind = "str" /\ IntParses(response.page.s)
               /\ IntValue(response.page.s) > last) =>
                  /\ response.number = last
                  /\ Len(response.data) = N - HumanPageSize * (last - 1)
                  /\ C15PageIsSlice
           /\ N = 0 =>
                  /\ response.data = <<>> /\ response.total = 0
                  /\ response.number = 1 /\ response.num_pages = 1
                  /\ ~response.has_previous /\ ~response.has_next

\* page 4 was asked of 10 matches on 2 pages: page 2 with its one item
C16_Witness ==
    /\ HumanAnswered /\ response.page = F(<<52>>) /\ response.total = 10
    /\ response.number = 2 /\ Len(response.data) = 1 /\ ~response.has_next


\* ceil(n / 10), 1 for an empty list
ApiPagesFor(n) == IF n = 0 THEN 1 ELSE (n + ApiPageSize - 1) \div ApiPageSize

\* C17: a request to the machine-facing list (no location parameter) with a
\* page number beyond the last page is answered, without an error, with the
\* last page.
C17_ApiPageClamped ==
    (/\ ApiAnswered /\ response.q = Absent
     /\ response.page.kind = "str" /\ IntParses(response.page.s)
     /\ IntValue(response.page.s) > ApiPagesFor(Cardinality(properties))) =>
        /\ response.status = 200
        /\ response.number = ApiPagesFor(Cardinality(properties))
        /\ response.total = Cardinality(properties)


C18MissingLocationSkipped ==
    (RowStep /\ ~skip_location /\ MissingLocationData(row')) =>
        /\ error_count' = error_count + 1
        /\ created_count' = created_count /\ updated_count' = updated_count
        /\ locations' = locations /\ nextLocationId' = nextLocationId
        /\ properties' = properties /\ nextPropertyId' = nextPropertyId
        /\ pc' = "rows"

\* C18: without --skip-location a row whose location, city or state is blank
\* after trimming adds exactly one to the error count and leaves every Location
\* and every Property as it was, whatever its title and other cells are; the
\* loop goes on with the next row.
C18_MissingLocationIsOneError == [][C18MissingLocationSkipped]_vars

\* a row with a blank state, a blank title and a bathrooms cell that is no
\* number was counted as one error on a store that holds a Property
C18_Witness ==
    /\ pc = "rows" /\ ~skip_location /\ error_count = 1 /\ properties # {}
    /\ row.state = F(<<9, 32>>) /\ row.title = F(<<32>>) /\ row.bathrooms = F(<<97>>)
    /\ stdout[Len(stdout)].kind = "missing_location"


\* the Locations that carry the (name, city, country) of row r
SameTriple(r, ls) ==
    {l \in ls : /\ l.name = Stripped(r.location, <<>>)
                /\ l.city = Stripped(r.city, <<>>)
                /\ l.country = Stripped(r.country, <<85, 83, 65>>)}

RowImported ==
    RowStep /\ created_count' + updated_count' = created_count + updated_count + 1

C19ResolvedByTriple ==
    (RowImported /\ ~skip_location) =>
        /\ IF SameTriple(row', locations) # {}
           THEN locations' = locations
           ELSE \E l \in SameTriple(row', locations') : locations' = locations \cup {l}
        /\ \E p \in properties' :
              /\ p.title = Stripped(row'.title, <<>>)
              /\ p.location \in Ids(SameTriple(row', locations'))
              /\ p \notin properties \/ updated_count' = updated_count + 1

\* C19: without --skip-location an imported row is attached to the Location
\* that carries the row's (name, city, country); that Location is created by
\* the row exactly when no Location carried the triple before.
C19_LocationResolvedByTriple == [][C19ResolvedByTriple]_vars

C20ExistingLocationsKept ==
    RowStep => \A l \in locations : l \in locations'

\* C20: no row of an import changes a Location that exists: its city, state,
\* country and description stay as they were, also when the row that resolves
\* to it carries another city, state or country.
C20_ImportKeepsExistingLocations == [][C20ExistingLocationsKept]_vars

\* the second Property of the store was created by a row of city Y and country
\* UK at the Location of its name, which has city X and country USA
C20_Witness ==
    /\ pc = "done" /\ ~skip_location /\ created_count = 1 /\ nextPropertyId = 3
    /\ Stripped(row.city, <<>>) = <<89>> /\ Stripped(row.country, <<85, 83, 65>>) = <<85, 75>>
    /\ \E l \in locations, p \in properties :
        /\ p.id = 2 /\ p.location = l.id /\ l.name = Stripped(row.location, <<>>)
        /\ l.city = <<88>> /\ l.country = <<85, 83, 65>>


\* the cell is there and is no decimal number
Unparsable(cell) == cell.kind = "str" /\ ~DecimalParses(cell.s)

\* the Property a located row wrote: the one of the row's title at the Location
\* of the row's name, after the row
WrittenBy(r) ==
    {q \in properties' :
        /\ q.title = Stripped(r.title, <<>>)
        /\ \E l \in locations' : l.id = q.location /\ l.name = Stripped(r.location, <<>>)}

C21DecimalFallsBack ==
    (/\ RowStep /\ ~BlankTitle(row')
     /\ Unparsable(row'.bathrooms) \/ Unparsable(row'.price_per_night)) =>
        /\ error_count' = error_count
        /\ created_count' + updated_count' = created_count + updated_count + 1
        /\ \E q \in WrittenBy(row') :
            /\ Unparsable(row'.bathrooms) => q.bathrooms = 10
            /\ Unparsable(row'.price_per_night) => q.price_per_night = 10000
            /\ q.bedrooms = ParseInt(row'.bedrooms, 1)
            /\ q.max_guests = ParseInt(row'.max_guests, 2)

\* C21: a row whose bathrooms or price_per_night cell is there but is no
\* decimal number is not an error: it is created or updated, with bathrooms 1.0
\* or price_per_night 100.00 in place of the unparsable cell and its other
\* fields from the row.
C21_UnparsableDecimalFallsBack == [][C21DecimalFallsBack]_vars


\* the cell is missing, None, empty or no integer
NotInteger(cell) == cell.kind # "str" \/ ~AllDigits(Unsigned(Strip(cell.s)))

C22IntegerFallsBack ==
    (/\ RowStep /\ ~RowFails(row', skip_location, locations)
     /\ NotInteger(row'.bedrooms) \/ NotInteger(row'.max_guests)) =>
        /\ error_count' = error_count
        /\ created_count' + updated_count' = created_count + updated_count + 1
        /\ \E q \in WrittenBy(row') :
            /\ q.bedrooms = IF NotInteger(row'.bedrooms) THEN 1
                            ELSE IntValue(row'.bedrooms.s)
            /\ q.max_guests = IF NotInteger(row'.max_guests) THEN 2
                              ELSE IntValue(row'.max_guests.s)

\* C22: a row whose bedrooms or max_guests cell is missing, empty or no
\* integer (and that does not fail for another reason) is created or updated
\* with bedrooms 1 or max_guests 2 in its place, the other of the two cells
\* being read on its own.
C22_IntegerFallsBack == [][C22IntegerFallsBack]_vars

\* a row with bedrooms "x" and max_guests "4" was imported as 1 bedroom, 4 guests
C22_Witness ==
    /\ pc = "rows" /\ row.bedrooms = F(<<120>>) /\ row.max_guests = F(<<52>>)
    /\ stdout[Len(stdout)].kind \in {"created", "updated"}
    /\ \E q \in properties :
        q.title = Stripped(row.title, <<>>) /\ q.bedrooms = 1 /\ q.max_guests = 4


\* p with the nine fields of property_data replaced by those of row r
Rewritten(p, r) ==
    LET d == PropertyData(r)
    IN [id |-> p.id, title |-> p.title, location |-> p.location,
        description |-> d.description, property_type |-> d.property_type,
        bedrooms |-> d.bedrooms, bathrooms |-> d.bathrooms, max_guests |-> d.max_guests,
        price_per_night |-> d.price_per_night, address |-> d.address,
        amenities |-> d.amenities, is_available |-> d.is_available]

C26UpdateInPlace ==
    (RowStep /\ updated_count' = updated_count + 1) =>
        \E p \in properties :
            /\ p.title = Stripped(row'.title, <<>>)
            /\ p.location # NULL
            /\ properties' = (properties \ {p}) \cup {Rewritten(p, row')}

\* the row before this one was imported and has this row's title and location name
C26SecondOfPair ==
    /\ RowStep /\ ~skip_location /\ row_num >= 2
    /\ stdout[Len(stdout)].kind \in {"created", "updated"}
    /\ Stripped(row.title, <<>>) = Stripped(row'.title, <<>>)
    /\ Stripped(row.location, <<>>) = Stripped(row'.location, <<>>)
    /\ ~RowFails(row', FALSE, locations)

C26LaterRowWins ==
    C26SecondOfPair =>
        /\ updated_count' = updated_count + 1 /\ created_count' = created_count
        /\ \E p \in properties : Rewritten(p, row') \in properties'

\* C26: a row that updates a Property keeps its identifier, title and Location,
\* replaces its nine other fields by the values derived from the row (defaults
\* for the cells the row lacks) and leaves every other Property as it was; the
\* second of two rows of one file with the same title and location is an
\* update, after which the stored values are those of the second row.
C26_UpdateRewritesInPlace == [][C26UpdateInPlace /\ C26LaterRowWins]_vars

\* a two-row file: the first row created the store's only Property, the second
\* (no numeric cells but max_guests " 5") updated it to 1 bedroom, 1.0
\* bathrooms, 5 guests, 100.00 a night
C26_Witness ==
    /\ pc = "done" /\ csv_file.n = 2 /\ created_count = 1 /\ updated_count = 1
    /\ nextPropertyId = 2 /\ row.max_guests = F(<<32, 53>>)
    /\ \E p \in properties :
        /\ p.id = 1 /\ p.bedrooms = 1 /\ p.bathrooms = 10 /\ p.max_guests = 5
        /\ p.price_per_night = 10000 /\ p.is_available /\ p.description = <<>>


\* the row has a location name, a city, a state and a title that are not blank,
\* numeric cells that parse where they are given, and no cell that is None
WellFormed(r) ==
    /\ \A c \in {r.location, r.city, r.state, r.title} :
          c.kind = "str" /\ Strip(c.s) # <<>>
    /\ \A c \in {r.bedrooms, r.max_guests} : c.kind = "absent" \/ ~NotInteger(c)
    /\ \A c \in {r.bathrooms, r.price_per_night} :
          c.kind = "absent" \/ (c.kind = "str" /\ DecimalParses(c.s))
    /\ \A c \in {r.country, r.description, r.property_type, r.address, r.amenities,
                 r.is_available} : c.kind # "none"

C23WellFormedRowImported ==
    (RowStep /\ ~skip_location /\ WellFormed(row')) =>
        /\ error_count' = error_count
        /\ created_count' + updated_count' = created_count + updated_count + 1

\* C23: whatever Locations administrators have added within the uniqueness
\* constraint, a row imported without --skip-location that has non-blank
\* location, city, state and title and parseable numeric cells is counted as
\* created or updated, never as an error.
C23_ToleratesForeignRecords == [][C23WellFormedRowImported]_vars


\* Two finished runs whose rows name one place that no Location stood for
\* before them: none stands for it now, or one of the runs inserted it.
RacePlace(r) ==
    {l \in locations : /\ l.name = Stripped(r.location, <<>>)
                       /\ l.city = Stripped(r.city, <<>>)
                       /\ l.country = Stripped(r.country, <<85, 83, 65>>)}
RacedForOnePlace ==
    /\ \A c \in Runners : runs[c].pc = "done"
    /\ Stripped(runs[1].row.location, <<>>) = Stripped(runs[2].row.location, <<>>)
    /\ Stripped(runs[1].row.city, <<>>) = Stripped(runs[2].row.city, <<>>)
    /\ Stripped(runs[1].row.country, <<85, 83, 65>>) = Stripped(runs[2].row.country, <<85, 83, 65>>)
    /\ \/ RacePlace(runs[1].row) = {}
       \/ \E c \in Runners : runs[c].insert = "done"

\* C24: when two concurrent runs have each processed a row naming the same
\* place that did not exist before, the store holds exactly one Location for
\* that place, both rows' Properties are attached to it, and neither row is
\* counted as an error.
C24_RaceLeavesOneLocation ==
    RacedForOnePlace =>
        /\ Cardinality(RacePlace(runs[1].row)) = 1
        /\ \A c \in Runners :
            /\ runs[c].msg \in {"created", "updated"}
            /\ \A l \in RacePlace(runs[1].row) :
                /\ runs[c].location = l.id
                /\ \E p \in properties :
                    p.title = Stripped(runs[c].row.title, <<>>) /\ p.location = l.id

\* When one of the two runs did insert the place, the race itself ends well:
\* one Location, no error (holds under SpecRace).
C24RaceItselfResolved ==
    (RacedForOnePlace /\ \E c \in Runners : runs[c].insert = "done") =>
        /\ Cardinality(RacePlace(runs[1].row)) = 1
        /\ \A c \in Runners : runs[c].msg \in {"created", "updated"}


\* the Properties that reference the Location whose identifier is id
ReferencingLocation(id) == {p \in properties : p.location = id}

\* C25: a request to the machine-facing list (no page parameter) whose
\* location filter is the identifier of an existing Location succeeds and
\* counts exactly the Properties that reference that Location, whatever the
\* Location's name and city; a list of one page shows them all.
C25_ApiLocationIdFilter ==
    (/\ ApiAnswered /\ response.page = Absent
     /\ response.q.kind = "str" /\ IntParses(response.q.s)
     /\ IntValue(response.q.s) \in Ids(locations)) =>
        /\ response.status = 200
        /\ response.total = Cardinality(ReferencingLocation(IntValue(response.q.s)))
        /\ response.num_pages = 1 =>
            {d.id : d \in Items(response.data)}
                = {p.id : p \in ReferencingLocation(IntValue(response.q.s))}


C27SumIsRowsProcessed ==
    pc \in {"rows", "done", "fatal"} =>
        created_count + updated_count + error_count = row_num - 1

C27OneCounterPerRow ==
    /\ RowStep =>
        \/ /\ created_count' = created_count + 1
           /\ updated_count' = updated_count /\ error_count' = error_count
        \/ /\ updated_count' = updated_count + 1
           /\ created_count' = created_count /\ error_count' = error_count
        \/ /\ error_count' = error_count + 1
           /\ created_count' = created_count /\ updated_count' = updated_count
    /\ pc = "rows" =>
        /\ created_count' >= created_count
        /\ updated_count' >= updated_count
        /\ error_count' >= error_count

\* C27: at every point of an import run the three counters add up to the
\* number of data rows processed so far; each row adds exactly one to exactly
\* one of them, and within a run no counter ever decreases.
C27_CountersSumToRows ==
    /\ []C27SumIsRowsProcessed
    /\ [][C27OneCounterPerRow]_vars

\* two rows into a run: the first was created, the second updated it
C27_Witness ==
    /\ pc = "rows" /\ row_num = 3
    /\ created_count = 1 /\ updated_count = 1 /\ error_count = 0


C28ErrorRowWritesNothing ==
    (RowStep /\ error_count' = error_count + 1) =>
        /\ locations' = locations
        /\ properties' = properties
        /\ nextLocationId' = nextLocationId
        /\ nextPropertyId' = nextPropertyId

\* C28: a row that is counted as an error leaves the store as it was before
\* the row: the Locations, and the Properties with all their contents, are
\* unchanged (also when the row has complete, unseen location data and a
\* blank title).
C28_ErrorRowLeavesStore == [][C28ErrorRowWritesNothing]_vars


\* the candidates of update_or_create(title=p.title, location=p.location)
Candidates(p) == {q \in properties : q.title = p.title /\ q.location = p.location}

\* C29: from an empty store, after any sequence of import runs (with or
\* without --skip-location) and Location deletions, no two Properties with a
\* non-null Location share (title, Location): the lookup by (title, location)
\* finds at most one candidate.
C29_TitleLocationUnique ==
    \A p \in properties : p.location # NULL => Cardinality(Candidates(p)) = 1

\* two Properties of one title: the first lost its Location to a deletion,
\* the second was imported at the Location created anew
C29_Witness ==
    /\ pc = "done" /\ ~skip_location
    /\ Cardinality(locations) < nextLocationId - 1
    /\ \E p, q \in properties :
        /\ p.title = q.title /\ p.location = NULL
        /\ q.location # NULL /\ q.location \in Ids(locations)

====
